---- MODULE Spec2Model ----
(***************************************************************************)
(* University Admission Management System (src/main.py).                   *)
(*                                                                         *)
(* The state is the database (departments, applications, allocations) and  *)
(* the answer to the last request.  The Flask session is the signed cookie *)
(* of the client: it comes with each request, and holds the identities the *)
(* client signed in with.  Every route handler is one action; a handler    *)
(* that raises leaves the database as it was (nothing was committed) and   *)
(* answers 500.                                                            *)
(*                                                                         *)
(* Spec handles one request at a time.  SpecAny is Spec with a review form *)
(* that carries a status other than its two decisions.  SpecConc runs      *)
(* review requests, and SpecSubmit submissions, in several workers, each   *)
(* with its own ORM session, a step per statement.  SpecRank lists the     *)
(* pending applications for every combination of marks.                    *)
(***************************************************************************)
EXTENDS Integers, Sequences, FiniteSets, TLC

\* ------------------------------------------------------------------------
\* Bounds of the model
\* ------------------------------------------------------------------------
NumStudents == 2
MaxAllocations == 2
SeatsCS == 2
SeatsOther == 1
NumWorkers == 2
MaxApplications == 2

\* ------------------------------------------------------------------------
\* Input domains
\* ------------------------------------------------------------------------
NoId == 0
Students == 1..NumStudents
AdminId == 1
Workers == 1..NumWorkers

\* the sessions a client can hold: signed in as a student, as the admin,
\* as both, or not at all
Sessions == [student_id : {NoId} \cup Students, admin_id : {NoId, AdminId}]

MeritKey(marks, p12, p10, age) ==
    [entrance_marks |-> marks, percentage_12th |-> p12,
     percentage_10th |-> p10, student_age |-> age]

\* the marks a student fills in: the students of even id rank above those
\* of odd id (same entrance marks, higher 12th percentage)
StudentKey(s) ==
    IF s % 2 = 0 THEN MeritKey(80, 75, 60, 19) ELSE MeritKey(80, 70, 60, 20)
MeritKeys == {StudentKey(s) : s \in Students}

\* the names the bootstrap creates, and one name it does not create
DepartmentNames == {"CS", "Mechanical", "Civil"}
FormDepartments == {"CS", "Mechanical", "Physics"}

\* request.form["status"]: the two decisions of the review form
Decisions == {"Approved", "Rejected"}

Subjects == {"Documents Rejected", "Documents Approved", "Admission Offer"}
Deliveries == [Subjects -> BOOLEAN]
AllDelivered == [m \in Subjects |-> TRUE]
NoneDelivered == [m \in Subjects |-> FALSE]
OfferLost == [m \in Subjects |-> m # "Admission Offer"]
DeliveryCases == {AllDelivered, NoneDelivered, OfferLost}

\* the requests of Next: a student fills in their own marks; a handler
\* behind @student_signin_required reads only student_id of the session, one
\* behind @admin_signin_required only admin_id, and neither reads the form
\* of a request it redirects
Forms == [method : {"GET", "POST"}, department : FormDepartments, key : MeritKeys]
Reviews == [student_id : Students, status : Decisions,
            deliv : DeliveryCases]
FormRequests ==
    {<<session, form>> \in Sessions \X Forms :
        /\ session.admin_id = NoId
        /\ IF session.student_id = NoId
           THEN form = [method |-> "POST", department |-> "CS",
                        key |-> StudentKey(1)]
           ELSE form.key = StudentKey(session.student_id)}
ReviewRequests ==
    {<<session, review>> \in Sessions \X Reviews :
        /\ session.student_id = NoId
        /\ session.admin_id = NoId =>
              review = [student_id |-> 1, status |-> "Approved",
                        deliv |-> AllDelivered]}

\* the sessions of the requests for the read-only pages
StudentSessions == {session \in Sessions : session.admin_id = NoId}
AdminSessions == {session \in Sessions : session.student_id = NoId}

VARIABLES
    departments,    \* table departments, department_id = index
    applications,   \* table applications, application_id = index
    allocations,    \* table allocations, allocation_id = index
    request,        \* the last request: method and path
    response,       \* answer to the last request
    workers         \* requests in flight (SpecConc, SpecSubmit)

vars == <<departments, applications, allocations, request, response, workers>>
db == [departments |-> departments, applications |-> applications,
       allocations |-> allocations]

\* ------------------------------------------------------------------------
\* Models (rows)
\* ------------------------------------------------------------------------
Department(name, total) ==
    [department_name |-> name, total_seats |-> total, filled_seats |-> 0]

Application(student_id, department, key) ==
    [student_id |-> student_id,
     department |-> department,
     entrance_marks |-> key.entrance_marks,
     percentage_12th |-> key.percentage_12th,
     percentage_10th |-> key.percentage_10th,
     student_age |-> key.student_age,
     document_status |-> "Pending"]

Allocation(application_id, department_id, allocation_status) ==
    [application_id |-> application_id,
     department_id |-> department_id,
     allocation_status |-> allocation_status]

\* .first() of the query without its filter: the first row of the table
first_application_unfiltered(apps, student_id) ==
    IF apps # <<>> THEN 1 ELSE 0

\* Query.filter_by(...).first(): index of the first matching row, 0 for None
first_application(apps, student_id) ==
    IF \E i \in DOMAIN apps : apps[i].student_id = student_id
    THEN CHOOSE i \in DOMAIN apps :
            /\ apps[i].student_id = student_id
            /\ \A j \in DOMAIN apps : apps[j].student_id = student_id => i <= j
    ELSE 0

first_department(depts, name) ==
    IF \E i \in DOMAIN depts : depts[i].department_name = name
    THEN CHOOSE i \in DOMAIN depts :
            /\ depts[i].department_name = name
            /\ \A j \in DOMAIN depts : depts[j].department_name = name => i <= j
    ELSE 0

\* the answer to a request: the status code, the flashed message and the
\* mails that were delivered while it ran
Response(code, flash, mails) ==
    [code |-> code, flash |-> flash, mails |-> mails]

\* the request line of a request
Request(method, path) == [method |-> method, path |-> path]

idle == [pc |-> "idle"]

Init ==
    /\ departments = <<>>
    /\ applications = <<>>
    /\ allocations = <<>>
    /\ request = Request("none", "")
    /\ response = Response("none", "", {})
    /\ workers = [w \in Workers |-> idle]

\* ------------------------------------------------------------------------
\* General routes and authentication
\* ------------------------------------------------------------------------
home ==
    /\ departments' =
          IF departments = <<>>
          THEN << Department("CS", SeatsCS),
                  Department("Mechanical", SeatsOther),
                  Department("Civil", SeatsOther) >>
          ELSE departments
    /\ request' = Request("GET", "/home")
    /\ response' = Response("200", "", {})
    /\ UNCHANGED <<applications, allocations, workers>>

\* a sign-in with the credentials of a registered student or of the admin
\* puts the identity in the session of the client (a failed one does not)
student_signin ==
    /\ request' = Request("POST", "/student-signin")
    /\ response' = Response("302", "", {})
    /\ UNCHANGED <<departments, applications, allocations, workers>>

\* a registration writes the students table only, which no other handler of
\* the model reads
student_signup ==
    /\ request' = Request("POST", "/student-signup")
    /\ response' = Response("302", "Account Created, Sign In to continue", {})
    /\ UNCHANGED <<departments, applications, allocations, workers>>

admin_signin ==
    /\ request' = Request("POST", "/admin-signin")
    /\ response' = Response("302", "", {})
    /\ UNCHANGED <<departments, applications, allocations, workers>>

\* session.clear()
logout ==
    /\ request' = Request("GET", "/logout")
    /\ response' = Response("302", "Logged out successfully", {})
    /\ UNCHANGED <<departments, applications, allocations, workers>>

\* @student_signin_required / @admin_signin_required: the answer to a
\* request that carries no identity, the view is not run
signin_required == Response("302", "Please SignIn to continue", {})

\* ------------------------------------------------------------------------
\* Application submission
\* ------------------------------------------------------------------------
\* the check for an existing application only on GET
application_form_view_unchecked(apps, student_id, method, department, key) ==
    IF method = "POST"
    THEN [applications |-> Append(apps, Application(student_id, department, key)),
          response |-> Response("302", "Application submitted successfully.", {})]
    ELSE IF first_application(apps, student_id) # 0
    THEN [applications |-> apps,
          response |-> Response("302", "You can submit only one application.", {})]
    ELSE [applications |-> apps,
          response |-> Response("200", "", {})]

\* the view behind /application-form: the new applications table and the
\* response
application_form_view(apps, student_id, method, department, key) ==
    IF first_application(apps, student_id) # 0
    THEN [applications |-> apps,
          response |-> Response("302", "You can submit only one application.", {})]
    ELSE IF method = "POST"
    THEN [applications |-> Append(apps, Application(student_id, department, key)),
          response |-> Response("302", "Application submitted successfully.", {})]
    ELSE [applications |-> apps,
          response |-> Response("200", "", {})]

application_form(session, method, department, key) ==
    /\ request' = Request(method, "/application-form")
    /\ IF session.student_id = NoId
       THEN /\ response' = signin_required
            /\ UNCHANGED applications
       ELSE \E r \in {application_form_view(applications, session.student_id,
                                             method, department, key)} :
                /\ applications' = r.applications
                /\ response' = r.response
    /\ UNCHANGED <<departments, allocations, workers>>

\* ------------------------------------------------------------------------
\* Admin document review
\* ------------------------------------------------------------------------
\* mail.send(msg) with no try/except around it
try_send_unguarded(subject, deliv) ==
    [mails |-> IF deliv[subject] THEN {subject} ELSE {},
     raised |-> ~deliv[subject]]

\* mail.send(msg) inside try/except: the mails that went out, and whether
\* an exception leaves the block
try_send(subject, deliv) ==
    [mails |-> IF deliv[subject] THEN {subject} ELSE {}, raised |-> FALSE]

\* the notification of the decision: status == "Rejected", elif "Approved"
notify_decision(status, deliv) ==
    IF status = "Rejected" THEN try_send("Documents Rejected", deliv)
    ELSE IF status = "Approved" THEN try_send("Documents Approved", deliv)
    ELSE [mails |-> {}, raised |-> FALSE]

\* the Allocation is built for every status
allocates_always(status) == TRUE

\* the branch that builds an Allocation is never taken
allocates_never(status) == FALSE

\* the branch that builds an Allocation: elif status == "Approved"
allocates(status) == status = "Approved"

\* <= for <
has_capacity_off_by_one(department) ==
    department.filled_seats <= department.total_seats

\* department.filled_seats < department.total_seats
has_capacity(department) == department.filled_seats < department.total_seats

\* a seat also for an applicant of high merit when the department is full
allocation_status_by_merit(application, department) ==
    IF has_capacity(department) \/ application.percentage_12th > 70
    THEN "Allocated" ELSE "Not Allocated"

\* a seat whatever filled_seats is
allocation_status_always(application, department) == "Allocated"

\* the allocation_status the Approved branch gives the new Allocation
allocation_status(application, department) ==
    IF has_capacity(department) THEN "Allocated" ELSE "Not Allocated"

\* the increment left out
commit_seat_forgotten(depts, dep) == depts

\* department.filled_seats += 1
commit_seat(depts, dep) == [depts EXCEPT ![dep].filled_seats = @ + 1]

\* the document_status is committed before the exception
abort_after_flush(d, dirty, mails) ==
    [departments |-> d.departments, applications |-> dirty.applications,
     allocations |-> d.allocations,
     response |-> Response("500", "", mails)]

\* an exception leaves the view before db.session.commit(): the changes
\* pending in the ORM session (dirty) are dropped, the database stays d; the
\* mails already sent stay sent
abort(d, dirty, mails) ==
    [departments |-> d.departments, applications |-> d.applications,
     allocations |-> d.allocations,
     response |-> Response("500", "", mails)]

\* the new Allocation overwrites the one the application already has
commit_upsert(depts, apps, allocs, mails) ==
    [departments |-> depts, applications |-> apps,
     allocations |->
        IF \E i \in 1..(Len(allocs) - 1) :
              allocs[i].application_id = allocs[Len(allocs)].application_id
        THEN [i \in 1..(Len(allocs) - 1) |->
                 IF allocs[i].application_id = allocs[Len(allocs)].application_id
                 THEN allocs[Len(allocs)] ELSE allocs[i]]
        ELSE allocs,
     response |-> Response("302", "", mails)]

\* db.session.commit() and the redirect
commit(depts, apps, allocs, mails) ==
    [departments |-> depts, applications |-> apps, allocations |-> allocs,
     response |-> Response("302", "", mails)]

\* the POST branch of approve_documents on database d
approve_documents_post(d, student_id, status, deliv) ==
    LET a == first_application(d.applications, student_id)
    IN
    IF a = 0 THEN abort(d, d, {})
    ELSE
    LET application == d.applications[a]
        dep == first_department(d.departments, application.department)
        apps1 == [d.applications EXCEPT ![a].document_status = status]
        dirty == [d EXCEPT !.applications = apps1]
        m == notify_decision(status, deliv)
    IN
    IF m.raised THEN abort(d, dirty, m.mails)
    ELSE IF ~allocates(status)
    THEN commit(d.departments, apps1, d.allocations, m.mails)
    ELSE IF dep = 0 THEN abort(d, dirty, m.mails)
    ELSE
    LET department == d.departments[dep]
        allocation == Allocation(a, dep, allocation_status(application, department))
    IN
    IF allocation.allocation_status = "Allocated"
    THEN LET o == try_send("Admission Offer", deliv)
         IN  IF o.raised
             THEN abort(d, [dirty EXCEPT !.departments = commit_seat(@, dep)],
                        m.mails \cup o.mails)
             ELSE commit(commit_seat(d.departments, dep), apps1,
                         Append(d.allocations, allocation),
                         m.mails \cup o.mails)
    ELSE commit(d.departments, apps1,
                Append(d.allocations, allocation), m.mails)

\* the POST branch without @admin_signin_required
approve_documents_unprotected(session, student_id, status, deliv) ==
    /\ request' = Request("POST", "/approve-documents")
    /\ \E r \in {approve_documents_post(db, student_id, status, deliv)} :
          /\ Len(r.allocations) <= MaxAllocations
          /\ departments' = r.departments
          /\ applications' = r.applications
          /\ allocations' = r.allocations
          /\ response' = r.response
    /\ UNCHANGED workers

approve_documents(session, student_id, status, deliv) ==
    /\ request' = Request("POST", "/approve-documents")
    /\ IF session.admin_id = NoId
       THEN /\ response' = signin_required
            /\ UNCHANGED <<departments, applications, allocations>>
       ELSE \E r \in {approve_documents_post(db, student_id, status, deliv)} :
                /\ Len(r.allocations) <= MaxAllocations
                /\ departments' = r.departments
                /\ applications' = r.applications
                /\ allocations' = r.allocations
                /\ response' = r.response
    /\ UNCHANGED workers

\* ------------------------------------------------------------------------
\* Read-only pages: application status, pending list, merit list
\* ------------------------------------------------------------------------
\* render_template(...): a page, body is what the template is given
Page(body) == [code |-> "200", flash |-> "", mails |-> {}, body |-> body]

\* Allocation.query.filter_by(application_id=...).first(): the query has no
\* ORDER BY, so any row of the application can be the first; 0 for None
first_allocation(allocs, application_id) ==
    IF \E i \in DOMAIN allocs : allocs[i].application_id = application_id
    THEN {i \in DOMAIN allocs : allocs[i].application_id = application_id}
    ELSE {0}

\* the view behind /application-status: the pages it can render
application_status_view(d, student_id) ==
    LET a == first_application(d.applications, student_id)
    IN
    IF a = 0
    THEN {Response("302", "Please fill the application form first.", {})}
    ELSE
    LET application == d.applications[a]
    IN
    IF application.document_status = "Rejected"
    THEN {Page([document_status |-> application.document_status,
                allocation_status |-> "Documents not verified"])}
    ELSE IF application.document_status = "Approved"
    THEN {Page([document_status |-> application.document_status,
                allocation_status |->
                    IF al = 0 THEN "Document verification is pending"
                    ELSE d.allocations[al].allocation_status]) :
             al \in first_allocation(d.allocations, a)}
    ELSE {Page([document_status |-> application.document_status,
                allocation_status |-> "Document verification is pending"])}

application_status(session) ==
    /\ request' = Request("GET", "/application-status")
    /\ IF session.student_id = NoId
       THEN response' = signin_required
       ELSE response' \in application_status_view(db, session.student_id)
    /\ UNCHANGED <<departments, applications, allocations, workers>>

\* the ORDER BY with the age ascending
ranks_above_age_ascending(x, y) ==
    \/ x.entrance_marks > y.entrance_marks
    \/ /\ x.entrance_marks = y.entrance_marks
       /\ \/ x.percentage_12th > y.percentage_12th
          \/ /\ x.percentage_12th = y.percentage_12th
             /\ \/ x.percentage_10th > y.percentage_10th
                \/ /\ x.percentage_10th = y.percentage_10th
                   /\ x.student_age < y.student_age

\* ORDER BY entrance_marks DESC, percentage_12th DESC, percentage_10th DESC,
\* student_age DESC: row x must come before row y
ranks_above(x, y) ==
    \/ x.entrance_marks > y.entrance_marks
    \/ /\ x.entrance_marks = y.entrance_marks
       /\ \/ x.percentage_12th > y.percentage_12th
          \/ /\ x.percentage_12th = y.percentage_12th
             /\ \/ x.percentage_10th > y.percentage_10th
                \/ /\ x.percentage_10th = y.percentage_10th
                   /\ x.student_age > y.student_age

\* the orders in which a set of rows can be listed
listings(rows) ==
    {l \in [1..Cardinality(rows) -> rows] :
        \A i, j \in DOMAIN l : i # j => l[i] # l[j]}

\* .order_by(...).all() on the rows (application ids) a query selects: the
\* rows with equal keys come in any order
order_by(apps, rows) ==
    {l \in listings(rows) :
        \A i, j \in DOMAIN l : i < j => ~ranks_above(apps[l[j]], apps[l[i]])}

\* every application, whatever its document_status
pending_rows_unfiltered(apps) == DOMAIN apps

\* Application.query.filter_by(document_status="Pending")
pending_rows(apps) ==
    {a \in DOMAIN apps : apps[a].document_status = "Pending"}

\* the GET branch of approve_documents: the pending applications by merit
approve_documents_get(session) ==
    /\ request' = Request("GET", "/approve-documents")
    /\ IF session.admin_id = NoId
       THEN response' = signin_required
       ELSE \E l \in order_by(applications, pending_rows(applications)) :
               response' = Page(l)
    /\ UNCHANGED <<departments, applications, allocations, workers>>

\* the join with no filter on allocation_status
merit_rows_any_status(d, dept) ==
    {a \in DOMAIN d.applications :
        /\ d.applications[a].department = dept
        /\ \E i \in DOMAIN d.allocations :
              d.allocations[i].application_id = a}

\* Application.query.join(Allocation, ...).filter(Application.department ==
\* dept, Allocation.allocation_status == "Allocated"): a Query of one entity
\* returns each application once, however many allocations it joins
merit_rows(d, dept) ==
    {a \in DOMAIN d.applications :
        /\ d.applications[a].department = dept
        /\ \E i \in DOMAIN d.allocations :
              /\ d.allocations[i].application_id = a
              /\ d.allocations[i].allocation_status = "Allocated"}

\* /merit-list/<dept>
department_merit(session, dept) ==
    /\ request' = Request("GET", "/merit-list")
    /\ IF session.admin_id = NoId
       THEN response' = signin_required
       ELSE \E l \in order_by(applications, merit_rows(db, dept)) :
               response' = Page(l)
    /\ UNCHANGED <<departments, applications, allocations, workers>>

\* ------------------------------------------------------------------------
\* Specification: requests are handled one at a time.  The rows of the
\* applications table can be permuted without changing what any handler
\* does, so the students are taken to apply in the order of their ids.
\* ------------------------------------------------------------------------
Next ==
    \/ home
    \/ student_signin
    \/ student_signup
    \/ admin_signin
    \/ logout
    \/ \E q \in FormRequests :
          /\ q[1].student_id <= Len(applications) + 1
          /\ application_form(q[1], q[2].method, q[2].department, q[2].key)
    \/ \E q \in ReviewRequests :
          approve_documents(q[1], q[2].student_id, q[2].status, q[2].deliv)
    \/ \E session \in StudentSessions : application_status(session)
    \/ \E session \in AdminSessions : approve_documents_get(session)
    \/ \E session \in AdminSessions, dept \in FormDepartments :
          department_merit(session, dept)

Spec == Init /\ [][Next]_vars

\* ------------------------------------------------------------------------
\* Specification: as Spec, and the review form is also posted with a status
\* that is none of its two decisions
\* ------------------------------------------------------------------------
OtherStatus == "On Hold"

NextAny ==
    \/ Next
    \/ \E session \in AdminSessions, student_id \in Students :
          approve_documents(session, student_id, OtherStatus, AllDelivered)

SpecAny == Init /\ [][NextAny]_vars

\* ------------------------------------------------------------------------
\* Concurrent reviews: each worker runs approve_documents for one POST in
\* its own ORM session, a step per statement group.  The rows a worker has
\* loaded are its own copies; db.session.commit() writes the values the
\* worker computed from them.
\* ------------------------------------------------------------------------
InFlight == {w \in Workers : workers[w].pc \in {"query", "decide", "commit"}}

\* student_id = request.form["student_id"]; status = request.form["status"]
conc_begin(w, student_id, status) ==
    /\ workers[w].pc = "idle"
    /\ Len(allocations) + Cardinality(InFlight) < MaxAllocations
    /\ workers' = [workers EXCEPT ![w] =
                      [pc |-> "query", student_id |-> student_id,
                       status |-> status]]
    /\ UNCHANGED <<departments, applications, allocations, request, response>>

\* application = Application.query...first(); department = Department.query
\* ...first(): application.department of None raises
conc_query(w) ==
    /\ workers[w].pc = "query"
    /\ \E a \in {first_application(applications, workers[w].student_id)} :
          IF a = 0
          THEN workers' = [workers EXCEPT ![w] = [pc |-> "failed"]]
          ELSE \E dep \in {first_department(departments,
                                            applications[a].department)} :
                  workers' = [workers EXCEPT ![w] =
                     [pc |-> "decide", student_id |-> workers[w].student_id,
                      status |-> workers[w].status,
                      a |-> a, application |-> applications[a], dep |-> dep,
                      department |-> IF dep = 0 THEN Department("", 0)
                                     ELSE departments[dep]]]
    /\ UNCHANGED <<departments, applications, allocations, request, response>>

\* application.document_status = status and the branch on status, on the
\* rows the worker holds: department.filled_seats of None raises
conc_decide(w) ==
    /\ workers[w].pc = "decide"
    /\ \E me \in {workers[w]} :
          IF ~allocates(me.status)
          THEN workers' = [workers EXCEPT ![w] =
                              [me EXCEPT !.pc = "commit"] @@
                              [allocation_status |-> ""]]
          ELSE IF me.dep = 0
          THEN workers' = [workers EXCEPT ![w] = [pc |-> "failed"]]
          ELSE workers' = [workers EXCEPT ![w] =
                              [me EXCEPT !.pc = "commit"] @@
                              [allocation_status |->
                                  allocation_status(me.application, me.department)]]
    /\ UNCHANGED <<departments, applications, allocations, request, response>>

\* db.session.commit(): UPDATE applications SET document_status, UPDATE
\* departments SET filled_seats = the value computed from the loaded row,
\* INSERT INTO allocations
conc_commit(w) ==
    /\ workers[w].pc = "commit"
    /\ \E me \in {workers[w]} :
          /\ applications' =
                [applications EXCEPT ![me.a].document_status = me.status]
          /\ departments' =
                IF me.allocation_status = "Allocated"
                THEN [departments EXCEPT ![me.dep].filled_seats =
                         me.department.filled_seats + 1]
                ELSE departments
          /\ allocations' =
                IF me.allocation_status = ""
                THEN allocations
                ELSE Append(allocations,
                            Allocation(me.a, me.dep, me.allocation_status))
          /\ workers' = [workers EXCEPT ![w] = [me EXCEPT !.pc = "done"]]
    /\ UNCHANGED <<request, response>>

\* return redirect(...), or the 500 of a request that raised
conc_respond(w) ==
    /\ workers[w].pc \in {"done", "failed"}
    /\ workers' = [workers EXCEPT ![w] = idle]
    /\ UNCHANGED <<departments, applications, allocations, request, response>>

\* the departments exist, student 1 has submitted an application and
\* student 2 has submitted one of higher merit or none yet
InitConc ==
    /\ departments = << Department("CS", SeatsCS),
                        Department("Mechanical", SeatsOther),
                        Department("Civil", SeatsOther) >>
    /\ \E d1, d2 \in FormDepartments :
          \/ applications = << Application(1, d1, StudentKey(1)) >>
          \/ applications = << Application(1, d1, StudentKey(1)),
                               Application(2, d2, StudentKey(2)) >>
    /\ allocations = <<>>
    /\ request = Request("POST", "/application-form")
    /\ response = Response("302", "Application submitted successfully.", {})
    /\ workers = [w \in Workers |-> idle]

NextConc ==
    \/ \E w \in Workers, s \in Students, status \in Decisions :
          conc_begin(w, s, status)
    \/ \E w \in Workers : conc_query(w)
    \/ \E w \in Workers : conc_decide(w)
    \/ \E w \in Workers : conc_commit(w)
    \/ \E w \in Workers : conc_respond(w)

SpecConc == InitConc /\ [][NextConc]_vars

\* ------------------------------------------------------------------------
\* Concurrent submissions: each worker runs the POST of application_form in
\* its own ORM session, the query for an existing application and the
\* insert as separate steps.  The applications table has no unique
\* constraint on student_id.
\* ------------------------------------------------------------------------
Submitting == {w \in Workers : workers[w].pc \in {"existing", "insert"}}

form_begin(w, student_id, department) ==
    /\ workers[w].pc = "idle"
    /\ Len(applications) + Cardinality(Submitting) < MaxApplications
    /\ workers' = [workers EXCEPT ![w] =
                      [pc |-> "existing", student_id |-> student_id,
                       department |-> department]]
    /\ UNCHANGED <<departments, applications, allocations, request, response>>

\* existing_application = Application.query.filter_by(...).first() and the
\* redirect if there is one
form_existing(w) ==
    /\ workers[w].pc = "existing"
    /\ workers' = [workers EXCEPT ![w].pc =
                      IF first_application(applications,
                                           workers[w].student_id) # 0
                      THEN "refused" ELSE "insert"]
    /\ UNCHANGED <<departments, applications, allocations, request, response>>

\* db.session.add(application); db.session.commit()
form_insert(w) ==
    /\ workers[w].pc = "insert"
    /\ applications' =
          Append(applications,
                 Application(workers[w].student_id, workers[w].department,
                             StudentKey(workers[w].student_id)))
    /\ workers' = [workers EXCEPT ![w].pc = "submitted"]
    /\ UNCHANGED <<departments, allocations, request, response>>

\* return redirect(url_for("student_dashboard"))
form_respond(w) ==
    /\ workers[w].pc \in {"refused", "submitted"}
    /\ workers' = [workers EXCEPT ![w] = idle]
    /\ UNCHANGED <<departments, applications, allocations, request, response>>

InitSubmit ==
    /\ departments = << Department("CS", SeatsCS),
                        Department("Mechanical", SeatsOther),
                        Department("Civil", SeatsOther) >>
    /\ applications = <<>>
    /\ allocations = <<>>
    /\ request = Request("GET", "/home")
    /\ response = Response("200", "", {})
    /\ workers = [w \in Workers |-> idle]

NextSubmit ==
    \/ \E w \in Workers, s \in Students, department \in FormDepartments :
          form_begin(w, s, department)
    \/ \E w \in Workers : form_existing(w)
    \/ \E w \in Workers : form_insert(w)
    \/ \E w \in Workers : form_respond(w)

SpecSubmit == InitSubmit /\ [][NextSubmit]_vars

\* ------------------------------------------------------------------------
\* The pending list on its own: applications with any marks, some of them
\* rejected, and requests for the list.
\* ------------------------------------------------------------------------
RankMarks == {60, 80}
RankAges == {19, 20}
RankKeys ==
    {MeritKey(marks, p12, p10, age) :
        marks \in RankMarks, p12 \in RankMarks, p10 \in RankMarks,
        age \in RankAges}

InitRank ==
    /\ departments = << Department("CS", SeatsCS),
                        Department("Mechanical", SeatsOther),
                        Department("Civil", SeatsOther) >>
    /\ \E n \in 1..NumStudents :
       \E keys \in [1..n -> RankKeys],
          status \in [1..n -> {"Pending", "Rejected"}] :
          applications =
             [i \in 1..n |->
                 [Application(i, "CS", keys[i]) EXCEPT
                     !.document_status = status[i]]]
    /\ allocations = <<>>
    /\ request = Request("GET", "/home")
    /\ response = Response("200", "", {})
    /\ workers = [w \in Workers |-> idle]

NextRank == \E session \in AdminSessions : approve_documents_get(session)

SpecRank == InitRank /\ [][NextRank]_vars

\* ------------------------------------------------------------------------
\* Properties of Spec.  A handler assigns the value of its view to the next
\* state, so what a request does in a state is the value of the view there.
\* ------------------------------------------------------------------------
AllocationsOf(a) == {i \in DOMAIN allocations : allocations[i].application_id = a}
AllocatedIn(dep) ==
    {i \in DOMAIN allocations :
        /\ allocations[i].department_id = dep
        /\ allocations[i].allocation_status = "Allocated"}
ApplicationsOf(s) == {i \in DOMAIN applications : applications[i].student_id = s}
KnownDepartment(name) == first_department(departments, name) # 0

\* C1: every department has 0 <= filled_seats <= total_seats in every state
\* reached by submissions and reviews, repeated reviews included.
C1_SeatsWithinCapacity ==
    \A dep \in DOMAIN departments :
        /\ 0 <= departments[dep].filled_seats
        /\ departments[dep].filled_seats <= departments[dep].total_seats

\* a full department that has turned an approval down
C1_Witness ==
    \E dep \in DOMAIN departments :
        /\ departments[dep].filled_seats = departments[dep].total_seats
        /\ \E i \in DOMAIN allocations :
              /\ allocations[i].department_id = dep
              /\ allocations[i].allocation_status = "Not Allocated"

\* C2: filled_seats of a department is the number of its Allocated
\* allocations, re-reviews with either decision included.
C2_FilledEqualsAllocated ==
    \A dep \in DOMAIN departments :
        departments[dep].filled_seats = Cardinality(AllocatedIn(dep))

\* an application approved twice holds two seats of its department, and has
\* been reviewed again since
C2_Witness ==
    \E a \in DOMAIN applications :
        /\ applications[a].document_status = "Rejected"
        /\ \E i, j \in AllocationsOf(a) :
              /\ i # j
              /\ allocations[i].allocation_status = "Allocated"
              /\ allocations[j].allocation_status = "Allocated"
              /\ departments[allocations[i].department_id].filled_seats = 2

\* the message flashed to a student who already owns an application
C4_Duplicate == "You can submit only one application."

\* C4: a student owns at most one application, and a submission by a
\* student who owns one is refused and leaves the applications as they are,
\* whatever the document_status of the one they own.
C4_OneApplicationPerStudent ==
    /\ \A s \in Students : Cardinality(ApplicationsOf(s)) <= 1
    /\ \A s \in Students, method \in {"GET", "POST"},
          department \in FormDepartments, key \in MeritKeys :
          ApplicationsOf(s) # {} =>
             \E r \in {application_form_view(applications, s, method,
                                             department, key)} :
                /\ r.applications = applications
                /\ r.response.flash = C4_Duplicate

\* a student whose application was reviewed has just been refused a second
\* submission
C4_Witness ==
    /\ response.flash = C4_Duplicate
    /\ applications # <<>>
    /\ \A a \in DOMAIN applications :
          applications[a].document_status # "Pending"

\* C5: an application has at most one Allocation, also when it is approved
\* again (after Approved or after Rejected).
C5_AtMostOneAllocation ==
    \A a \in DOMAIN applications : Cardinality(AllocationsOf(a)) <= 1

\* C6: every Allocation references an application whose document_status is
\* Approved, also after the application is reviewed again with Rejected.
C6_AllocationImpliesApproved ==
    \A i \in DOMAIN allocations :
        applications[allocations[i].application_id].document_status = "Approved"

\* C7: a review with decision Rejected leaves the allocations and every
\* department as they were; only the document_status of the reviewed
\* application changes, to Rejected.
C7_RejectedCreatesNoAllocation ==
    \A s \in Students, deliv \in DeliveryCases :
        ApplicationsOf(s) # {} =>
           \E r \in {approve_documents_post(db, s, "Rejected", deliv)} :
              /\ r.response.code = "302"
              /\ r.allocations = allocations
              /\ r.departments = departments
              /\ r.applications =
                    [applications EXCEPT
                       ![first_application(applications, s)].document_status =
                           "Rejected"]

\* an application that holds a seat has just been rejected
C7_Witness ==
    /\ response.code = "302"
    /\ "Documents Rejected" \in response.mails
    /\ \E a \in DOMAIN applications :
          /\ applications[a].document_status = "Rejected"
          /\ AllocationsOf(a) # {}

\* C8: allocation is first-approved-first-served.  The allocations table
\* is the log of the approvals, in their order: an approval gets a seat
\* exactly when fewer approvals than the department has seats came before it
\* in its department, whatever the merit keys of the applications are.
C8_FirstApprovedFirstServed ==
    \A i \in DOMAIN allocations :
        LET dep == allocations[i].department_id
            before == {j \in 1..(i - 1) : allocations[j].department_id = dep}
        IN  allocations[i].allocation_status = "Allocated"
               <=> Cardinality(before) < departments[dep].total_seats

\* A was approved for the last seat, B was approved after A in the same
\* department and got none, and B ranks above A (same marks, higher 12th)
C8_Witness ==
    \E i, j \in DOMAIN allocations :
        /\ i < j
        /\ allocations[i].department_id = allocations[j].department_id
        /\ allocations[i].allocation_status = "Allocated"
        /\ allocations[j].allocation_status = "Not Allocated"
        /\ \E A \in {allocations[i].application_id},
              B \in {allocations[j].application_id} :
              /\ A # B
              /\ AllocationsOf(A) = {i}
              /\ AllocationsOf(B) = {j}
              /\ applications[B].entrance_marks = applications[A].entrance_marks
              /\ applications[B].percentage_12th > applications[A].percentage_12th

\* C9: what a review does to document_status, to the allocations and to
\* filled_seats, and whether it succeeds, is the same for every combination
\* of delivered and failed notifications as when all are delivered.
C9_NotificationsDoNotMatter ==
    \A s \in Students, status \in Decisions :
        \E all \in {approve_documents_post(db, s, status, AllDelivered)} :
            \A deliv \in Deliveries :
                \E r \in {approve_documents_post(db, s, status, deliv)} :
                    /\ r.applications = all.applications
                    /\ r.allocations = all.allocations
                    /\ r.departments = all.departments
                    /\ r.response.code = all.response.code

\* the last review approved an application and gave it a seat, and its
\* offer was not delivered
C9_Witness ==
    /\ response.code = "302"
    /\ response.mails = {"Documents Approved"}
    /\ allocations # <<>>
    /\ allocations[Len(allocations)].allocation_status = "Allocated"
    /\ applications[allocations[Len(allocations)].application_id].document_status
          = "Approved"

\* C10: approving an application whose department name matches no
\* department fails and changes nothing: document_status, allocations and
\* filled_seats are as before.
C10_UnknownDepartmentChangesNothing ==
    \A s \in Students, deliv \in DeliveryCases :
        ( /\ ApplicationsOf(s) # {}
          /\ ~KnownDepartment(
                 applications[first_application(applications, s)].department) )
        => \E r \in {approve_documents_post(db, s, "Approved", deliv)} :
              /\ r.response.code = "500"
              /\ r.applications = applications
              /\ r.allocations = allocations
              /\ r.departments = departments

\* the departments exist, every student has applied for a department that
\* is not among them, and the last review failed
C10_Witness ==
    /\ response.code = "500"
    /\ departments # <<>>
    /\ \A s \in Students : ApplicationsOf(s) # {}
    /\ \A a \in DOMAIN applications :
          /\ ~KnownDepartment(applications[a].department)
          /\ applications[a].document_status = "Pending"

\* C11: a review for a student id that has no application ends in an
\* error (the 500 of the exception) and leaves the applications, the
\* allocations and the departments as they were, for either decision.
C11_NoApplicationChangesNothing ==
    \A s \in Students, status \in Decisions, deliv \in DeliveryCases :
        ApplicationsOf(s) = {} =>
           \E r \in {approve_documents_post(db, s, status, deliv)} :
              /\ r.response.code = "500"
              /\ r.response.mails = {}
              /\ r.applications = applications
              /\ r.allocations = allocations
              /\ r.departments = departments

\* a review has just failed before any mail, while the only application is
\* one of another student, declared for a department that exists
C11_Witness ==
    /\ request = Request("POST", "/approve-documents")
    /\ response.code = "500"
    /\ response.mails = {}
    /\ Len(applications) = 1
    /\ KnownDepartment(applications[1].department)
    /\ applications[1].document_status = "Pending"

\* C12: the document_status of every application is Pending, Approved or
\* Rejected, whatever status a review request carries.
C12_StatusInDomain ==
    \A a \in DOMAIN applications :
        applications[a].document_status \in {"Pending", "Approved", "Rejected"}

\* the applications of the department that hold an Allocated allocation
C14_Expected(dept) ==
    {a \in DOMAIN applications :
        /\ applications[a].department = dept
        /\ \E i \in AllocationsOf(a) :
              allocations[i].allocation_status = "Allocated"}

\* the keys of x and y are equal up to attribute k, where x has the larger value
DecidedAt(x, y, k) ==
    LET attrs == <<"entrance_marks", "percentage_12th",
                   "percentage_10th", "student_age">>
    IN  /\ \A h \in 1..(k - 1) : x[attrs[h]] = y[attrs[h]]
        /\ x[attrs[k]] > y[attrs[k]]

SameKey(x, y) ==
    /\ x.entrance_marks = y.entrance_marks
    /\ x.percentage_12th = y.percentage_12th
    /\ x.percentage_10th = y.percentage_10th
    /\ x.student_age = y.student_age

\* C14: the merit list of a department holds exactly the applications
\* declared for it that have an Allocated allocation, each once, in
\* descending order of (entrance_marks, percentage_12th, percentage_10th,
\* student_age); the request changes no application, allocation or
\* department.
C14_MeritListOfDepartment ==
    /\ [](\A dept \in FormDepartments \cup DepartmentNames :
            \A l \in order_by(applications, merit_rows(db, dept)) :
               /\ {l[i] : i \in DOMAIN l} = C14_Expected(dept)
               /\ Len(l) = Cardinality(C14_Expected(dept))
               /\ \A i, j \in DOMAIN l :
                     i < j => \/ SameKey(applications[l[i]], applications[l[j]])
                              \/ \E k \in 1..4 :
                                    DecidedAt(applications[l[i]],
                                                  applications[l[j]], k))
    /\ [][request'.path = "/merit-list"
             => UNCHANGED <<departments, applications, allocations>>]_vars

\* the merit list has just shown one application, while another application
\* of the same department holds a Not Allocated allocation only
C14_Witness ==
    /\ request = Request("GET", "/merit-list")
    /\ response.code = "200"
    /\ Len(response.body) = 1
    /\ \E a \in DOMAIN applications :
          /\ a # response.body[1]
          /\ applications[a].department = applications[response.body[1]].department
          /\ AllocationsOf(a) # {}
          /\ \A i \in AllocationsOf(a) :
                allocations[i].allocation_status = "Not Allocated"

\* C15: the pending list holds exactly the applications whose
\* document_status is Pending, each once, and of two listed applications
\* with different keys the one placed first has the larger value at the
\* first of entrance_marks, percentage_12th, percentage_10th, student_age
\* where they differ.
C15_PendingByMerit ==
    ( /\ request = Request("GET", "/approve-documents")
      /\ response.code = "200" )
    => \E l \in {response.body} :
          /\ {l[i] : i \in DOMAIN l} =
                {a \in DOMAIN applications :
                    applications[a].document_status = "Pending"}
          /\ \A i, j \in DOMAIN l : i # j => l[i] # l[j]
          /\ \A i, j \in DOMAIN l :
                i < j => \/ SameKey(applications[l[i]], applications[l[j]])
                         \/ \E k \in 1..4 :
                               DecidedAt(applications[l[i]],
                                         applications[l[j]], k)

\* the list has just shown the second application before the first: they
\* have equal marks and percentages, and the second is the older
C15_Witness ==
    /\ request = Request("GET", "/approve-documents")
    /\ response.code = "200"
    /\ response.body = <<2, 1>>
    /\ applications[2].entrance_marks = applications[1].entrance_marks
    /\ applications[2].percentage_12th = applications[1].percentage_12th
    /\ applications[2].percentage_10th = applications[1].percentage_10th
    /\ applications[2].student_age > applications[1].student_age

\* C16: no request changes or removes an Allocation that exists: every
\* row of the allocations table is in the table after the request, with the
\* same application, department and allocation_status.
C16_AllocationsAreKept ==
    [][\A i \in DOMAIN allocations :
           /\ i \in DOMAIN allocations'
           /\ allocations'[i] = allocations[i]]_vars

\* an application holds the seat of its first approval and the Not
\* Allocated of its second, and has been rejected since
C16_Witness ==
    \E a \in DOMAIN applications :
        /\ applications[a].document_status = "Rejected"
        /\ \E i, j \in AllocationsOf(a) :
              /\ i < j
              /\ allocations[i].allocation_status = "Allocated"
              /\ allocations[j].allocation_status = "Not Allocated"

C17_Full(dep) ==
    departments[dep].filled_seats = departments[dep].total_seats

\* C17: approving an application of a full department adds a Not Allocated
\* allocation and leaves filled_seats as it is; no request lowers
\* filled_seats or changes total_seats, so a full department stays full.
C17_FullStaysFull ==
    /\ [](\A s \in Students, deliv \in DeliveryCases :
            \A a \in {first_application(applications, s)} \ {0} :
            \A dep \in {first_department(departments,
                                         applications[a].department)} \ {0} :
               C17_Full(dep) =>
                  \E r \in {approve_documents_post(db, s, "Approved", deliv)} :
                     /\ r.response.code = "302"
                     /\ r.departments = departments
                     /\ r.allocations =
                           Append(allocations,
                                  Allocation(a, dep, "Not Allocated")))
    /\ [][\A dep \in DOMAIN departments :
             /\ dep \in DOMAIN departments'
             /\ departments'[dep].total_seats = departments[dep].total_seats
             /\ departments'[dep].filled_seats >= departments[dep].filled_seats
             /\ C17_Full(dep) =>
                   departments'[dep].filled_seats = departments'[dep].total_seats
       ]_vars

\* the last review approved an application of a full department: it got
\* Not Allocated, and the department is as full as before
C17_Witness ==
    /\ request = Request("POST", "/approve-documents")
    /\ response.code = "302"
    /\ response.mails = {"Documents Approved"}
    /\ allocations # <<>>
    /\ allocations[Len(allocations)].allocation_status = "Not Allocated"
    /\ C17_Full(allocations[Len(allocations)].department_id)
    /\ Cardinality(AllocatedIn(allocations[Len(allocations)].department_id))
          = departments[allocations[Len(allocations)].department_id].total_seats

\* a session that holds no identity
C18_Anonymous == [student_id |-> NoId, admin_id |-> NoId]

\* C18: a step that changes the document_status of an application is a
\* POST to /approve-documents that @admin_signin_required let through, and
\* a review request that carries no admin_id is redirected and leaves the
\* applications, the allocations and the departments as they were.
C18_OnlyAdminReviewChangesStatus ==
    [][/\ (\E a \in DOMAIN applications :
              applications'[a].document_status # applications[a].document_status)
          => /\ request' = Request("POST", "/approve-documents")
             /\ response' # signin_required
       /\ \A student_id \in Students, status \in Decisions :
             approve_documents(C18_Anonymous, student_id, status, AllDelivered)
             => /\ response' = signin_required
                /\ UNCHANGED <<departments, applications, allocations>>
      ]_vars

\* a review request without admin_id has just been redirected, while one
\* application is Pending and another was approved before
C18_Witness ==
    /\ request = Request("POST", "/approve-documents")
    /\ response = signin_required
    /\ \E a, b \in DOMAIN applications :
          /\ applications[a].document_status = "Pending"
          /\ KnownDepartment(applications[a].department)
          /\ applications[b].document_status = "Approved"

\* C19: every application whose document_status is Approved has an
\* Allocation.
C19_ApprovedHasAllocation ==
    \A a \in DOMAIN applications :
        applications[a].document_status = "Approved" => AllocationsOf(a) # {}

\* an application is Approved and holds its allocation, while the approval
\* of an application of an unknown department has just failed and left it
\* Pending
C19_Witness ==
    /\ request = Request("POST", "/approve-documents")
    /\ response.code = "500"
    /\ response.mails = {"Documents Approved"}
    /\ \E a, b \in DOMAIN applications :
          /\ applications[a].document_status = "Approved"
          /\ Cardinality(AllocationsOf(a)) = 1
          /\ ~KnownDepartment(applications[b].department)
          /\ applications[b].document_status = "Pending"

C20_HoldsSeat(a) ==
    \E i \in AllocationsOf(a) : allocations[i].allocation_status = "Allocated"

\* C20: the status page of a student agrees with the stored state: it
\* shows "Document verification is pending" for a Pending application,
\* "Documents not verified" for a Rejected one and the allocation_status of
\* an allocation of the application for an Approved one; it shows Allocated
\* only for an Approved application that holds an Allocated allocation, and
\* for every application that holds one.
C20_StatusPageAgrees ==
    \A s \in Students :
        \A a \in {first_application(applications, s)} \ {0} :
        \A page \in application_status_view(db, s) :
           \E shown \in {page.body.allocation_status} :
              /\ applications[a].document_status = "Pending"
                    => shown = "Document verification is pending"
              /\ applications[a].document_status = "Rejected"
                    => shown = "Documents not verified"
              /\ applications[a].document_status = "Approved"
                    => \E i \in AllocationsOf(a) :
                          shown = allocations[i].allocation_status
              /\ shown = "Allocated"
                    => /\ applications[a].document_status = "Approved"
                       /\ C20_HoldsSeat(a)
              /\ C20_HoldsSeat(a) => shown = "Allocated"

\* ------------------------------------------------------------------------
\* Properties of SpecConc
\* ------------------------------------------------------------------------
Committed(w) == workers[w].pc = "done" /\ workers[w].status = "Approved"

\* C3: two approvals of different applications of one department that are
\* in flight together while one seat is left (none of the two has read
\* fewer filled seats than total_seats - 1, one has read exactly that) end
\* with one Allocated and one Not Allocated, and the department full.
C3_LastSeatGivenOnce ==
    \A w1, w2 \in Workers :
        ( /\ w1 # w2
          /\ Committed(w1)
          /\ Committed(w2)
          /\ workers[w1].a # workers[w2].a
          /\ workers[w1].dep = workers[w2].dep
          /\ workers[w1].department.filled_seats
                = workers[w1].department.total_seats - 1
          /\ workers[w2].department.filled_seats
                >= workers[w2].department.total_seats - 1 )
        => /\ {workers[w1].allocation_status, workers[w2].allocation_status}
                 = {"Allocated", "Not Allocated"}
           /\ departments[workers[w1].dep].filled_seats
                 = departments[workers[w1].dep].total_seats

\* ------------------------------------------------------------------------
\* Properties of SpecSubmit
\* ------------------------------------------------------------------------
\* C13: with the submissions of one student interleaved, the student still
\* owns at most one application and at most one of the submissions succeeds.
C13_OneApplicationUnderConcurrency ==
    /\ \A s \in Students : Cardinality(ApplicationsOf(s)) <= 1
    /\ \A w1, w2 \in Workers :
          ( /\ w1 # w2
            /\ workers[w1].pc = "submitted"
            /\ workers[w2].pc = "submitted" )
          => workers[w1].student_id # workers[w2].student_id

====
